---- MODULE Spec2Model ----
(***************************************************************************)
(* Model of the WinRM client: the two transports (clientRequest and        *)
(* ClientAuthRequest), the construction of a Client, CreateShell and the   *)
(* Run* family built on RunWithContextWithInput.                           *)
(*                                                                         *)
(* Three specifications share the variables:                               *)
(*   SpecNew   one call of NewClient / NewClientWithParameters on an        *)
(*             arbitrary endpoint;                                         *)
(*   SpecPost  Post calls on the transport of a constructed Client, the    *)
(*             network answering arbitrarily;                              *)
(*   Spec      one call of the Run* family on a constructed Client, with   *)
(*             its three pump goroutines, the Command's receive loop and   *)
(*             the cancellation signal (FairSpec adds the scheduler's      *)
(*             fairness).                                                  *)
(***************************************************************************)
EXTENDS Integers, Sequences, FiniteSets, TLC

VARIABLES
    endpoint,   \* the *Endpoint handed to the constructor
    ctor,       \* the constructor call: which one, its parameters, what it returned
    post,       \* the last Post: the request built, what the network did, what Post returned
    pc,         \* position of the goroutine running the Run* call
    call,       \* the arguments of the Run* call in progress
    shell,      \* the *Shell CreateShell returned, and the calls of its Close
    cmd,        \* the *Command ExecuteWithContext returned
    pump,       \* position of the three goroutines started at lines 217-236
    wg,         \* sync.WaitGroup counter
    io,         \* the caller's stdin source and stdout / stderr sinks
    ctx,        \* the cancellation signal
    hist,       \* history: the steps that failed, whether a Post was made, the Close calls
    ret         \* what the Run* call returned

vars == <<endpoint, ctor, post, pc, call, shell, cmd, pump, wg, io, ctx, hist, ret>>

transportVars == <<endpoint, ctor, post>>
runVars == <<pc, call, shell, cmd, pump, wg, io, ctx, hist, ret>>

(***************************************************************************)
(* Bounds                                                                  *)
(***************************************************************************)
MaxBody == 2      \* longest response body, in bytes
MaxChunks == 1    \* chunks the caller's stdin source can deliver
MaxPolls == 1     \* receive polls that report the command still running

(***************************************************************************)
(* Errors: a Go error is the chain of its %w wrappings, outermost first;   *)
(* nil is the empty chain.  code is the %d operand, text the %s operand.   *)
(***************************************************************************)
Nil == <<>>

NoCode == 0 - 1

NewError(msg) == <<[msg |-> msg, code |-> NoCode, text |-> <<>>]>>

Errorf(msg, code, text, wrapped) == <<[msg |-> msg, code |-> code, text |-> text]>> \o wrapped

(***************************************************************************)
(* strings.Contains on header values, which are sequences of tokens.       *)
(***************************************************************************)
Contains(s, sub) ==
    \E i \in 1..(Len(s) - Len(sub) + 1) : SubSeq(s, i, i + Len(sub) - 1) = sub

soapXML == <<"application/soap+xml">>

ContentTypes ==
    { <<"application/soap+xml", ";charset=UTF-8">>,
      <<"multipart/related;type=", "application/soap+xml">>,
      <<"text/html">>,
      <<>> }

StatusCodes == {200, 500}

Bytes == {0, 1}

RECURSIVE SeqsUpTo(_, _)
SeqsUpTo(S, n) ==
    IF n = 0 THEN { <<>> }
    ELSE LET shorter == SeqsUpTo(S, n - 1)
         IN shorter \cup { Append(s, x) : s \in { t \in shorter : Len(t) = n - 1 }, x \in S }

Bodies == SeqsUpTo(Bytes, MaxBody)

\* What httpClient.Do met: a transport error, or a response whose body delivers
\* `read` bytes and then EOF (readErr = Nil) or an error, and whose Close returns closeErr.
Responses ==
    [ StatusCode : StatusCodes, ContentType : ContentTypes, Body : Bodies,
      readErr : {Nil, NewError("unexpected EOF")},
      closeErr : {Nil, NewError("close")} ]

NoResponse ==
    [ StatusCode |-> 0, ContentType |-> <<>>, Body |-> <<>>, readErr |-> Nil, closeErr |-> Nil ]

NetOutcomes ==
    { [doErr |-> Nil, resp |-> r] : r \in Responses }
    \cup { [doErr |-> NewError("dial tcp: connection refused"), resp |-> NoResponse] }

(***************************************************************************)
(* Endpoints and Parameters.  Certificate material is PEM: a sequence of   *)
(* blocks, some of which parse.                                            *)
(***************************************************************************)
CertBlocks == {"CERT A", "CERT B", "CERT CA"}

KeyBlocks == {"KEY A"}

\* The private key that belongs to a certificate.
KeyOf(c) == IF c = "CERT A" THEN "KEY A" ELSE "no key"

Blocks(pem, kind) == SelectSeq(pem, LAMBDA b : b \in kind)

GoodURL == "https://winhost:5986/wsman"

BadURL == "https://%zz:5986/wsman"

Endpoints ==
    [ Cert : { <<>>, <<"junk">>, <<"CERT A">>, <<"CERT B">> },
      Key : { <<>>, <<"junk">>, <<"KEY A">> },
      CACert : { <<>>, <<"junk">>, <<"CERT CA">>, <<"junk", "CERT CA">> },
      url : { GoodURL, BadURL } ]

Decorators ==
    {"nil", "ClientAuthRequest", "NewClientAuthRequestWithDial", "NewClientWithDial",
     "NewClientWithProxyFunc"}

ParametersSet == [ Dial : {"nil", "paramsDial"}, TransportDecorator : Decorators ]

Usernames == {"alice", "bob"}

Passwords == {"secret", "hunter2"}

NoTransport == [ set |-> FALSE ]

NoClient == [ isNil |-> TRUE ]

\* tls.X509KeyPair(endpoint.Cert, endpoint.Key): the first certificate block and the
\* first key block must exist and belong together.
X509KeyPair(certPEM, keyPEM) ==
    LET certs == Blocks(certPEM, CertBlocks)
        keys == Blocks(keyPEM, KeyBlocks)
    IN IF certs = <<>> THEN [cert |-> "", err |-> NewError("tls: failed to find any PEM data in certificate input")]
       ELSE IF keys = <<>> THEN [cert |-> "", err |-> NewError("tls: failed to find any PEM data in key input")]
       ELSE IF KeyOf(Head(certs)) # Head(keys) THEN [cert |-> "", err |-> NewError("tls: private key does not match public key")]
       ELSE [cert |-> Head(certs), err |-> Nil]

\* readCACerts with the result of AppendCertsFromPEM ignored.
readCACerts_Unchecked(certs) == [certPool |-> Blocks(certs, CertBlocks), err |-> Nil]

\* readCACerts: AppendCertsFromPEM reports whether at least one certificate parsed.
readCACerts(certs) ==
    LET parsed == Blocks(certs, CertBlocks)
    IN IF parsed = <<>> THEN [certPool |-> <<>>, err |-> NewError("unable to read certificates")]
       ELSE [certPool |-> parsed, err |-> Nil]

\* (*clientRequest).Transport installing the default dialer whatever c.dial holds.
clientRequest_Transport_DefaultDialer(c, ep) ==
    LET proxyfunc == IF c.proxyfunc # "nil" THEN c.proxyfunc ELSE "http.ProxyFromEnvironment"
        transport == [ set |-> TRUE, Proxy |-> proxyfunc, Dial |-> "net.Dialer",
                       Certificates |-> <<>>, RootCAs |-> <<>>, MaxVersion |-> "default" ]
        ca == readCACerts(ep.CACert)
    IN IF Len(ep.CACert) > 0 /\ ca.err # Nil THEN [c |-> c, err |-> ca.err]
       ELSE IF Len(ep.CACert) > 0
            THEN [c |-> [c EXCEPT !.transport = [transport EXCEPT !.RootCAs = ca.certPool]], err |-> Nil]
            ELSE [c |-> [c EXCEPT !.transport = transport], err |-> Nil]

\* (*clientRequest).Transport: c is the receiver; returns the receiver after the call and the error.
clientRequest_Transport(c, ep) ==
    LET dial == IF c.dial # "nil" THEN c.dial ELSE "net.Dialer"
        proxyfunc == IF c.proxyfunc # "nil" THEN c.proxyfunc ELSE "http.ProxyFromEnvironment"
        transport == [ set |-> TRUE, Proxy |-> proxyfunc, Dial |-> dial,
                       Certificates |-> <<>>, RootCAs |-> <<>>, MaxVersion |-> "default" ]
        ca == readCACerts(ep.CACert)
    IN IF Len(ep.CACert) > 0 /\ ca.err # Nil THEN [c |-> c, err |-> ca.err]
       ELSE IF Len(ep.CACert) > 0
            THEN [c |-> [c EXCEPT !.transport = [transport EXCEPT !.RootCAs = ca.certPool]], err |-> Nil]
            ELSE [c |-> [c EXCEPT !.transport = transport], err |-> Nil]

\* (*ClientAuthRequest).Transport
ClientAuthRequest_Transport(c, ep) ==
    LET pair == X509KeyPair(ep.Cert, ep.Key)
        dial == IF c.dial # "nil" THEN c.dial ELSE "net.Dialer"
        transport == [ set |-> TRUE, Proxy |-> "http.ProxyFromEnvironment", Dial |-> dial,
                       Certificates |-> <<pair.cert>>, RootCAs |-> <<>>, MaxVersion |-> "TLS12" ]
        ca == readCACerts(ep.CACert)
    IN IF pair.err # Nil THEN [c |-> c, err |-> pair.err]
       ELSE IF Len(ep.CACert) > 0 /\ ca.err # Nil THEN [c |-> c, err |-> ca.err]
       ELSE IF Len(ep.CACert) > 0
            THEN [c |-> [c EXCEPT !.transport = [transport EXCEPT !.RootCAs = ca.certPool]], err |-> Nil]
            ELSE [c |-> [c EXCEPT !.transport = transport], err |-> Nil]

\* The Transporter a TransportDecorator returns (the constructors of both transports).
Decorate(decorator) ==
    CASE decorator = "ClientAuthRequest" ->
            [type |-> "ClientAuthRequest", dial |-> "nil", proxyfunc |-> "nil", transport |-> NoTransport]
      [] decorator = "NewClientAuthRequestWithDial" ->
            [type |-> "ClientAuthRequest", dial |-> "customDial", proxyfunc |-> "nil", transport |-> NoTransport]
      [] decorator = "NewClientWithDial" ->
            [type |-> "clientRequest", dial |-> "customDial", proxyfunc |-> "nil", transport |-> NoTransport]
      [] decorator = "NewClientWithProxyFunc" ->
            [type |-> "clientRequest", dial |-> "nil", proxyfunc |-> "customProxy", transport |-> NoTransport]

\* client.http.Transport(endpoint): dispatch on the Transporter's dynamic type.
Transporter_Transport(h, ep) ==
    IF h.type = "ClientAuthRequest" THEN ClientAuthRequest_Transport(h, ep)
    ELSE clientRequest_Transport(h, ep)

\* NewClientWithParameters: (client, err).
NewClientWithParameters(ep, user, password, params) ==
    LET default == [type |-> "clientRequest", dial |-> params.Dial, proxyfunc |-> "nil",
                    transport |-> NoTransport]
        http == IF params.TransportDecorator # "nil" THEN Decorate(params.TransportDecorator)
                ELSE default
        configured == Transporter_Transport(http, ep)
    IN IF configured.err # Nil
       THEN [client |-> NoClient,
             err |-> Errorf("can't parse this key and certs", NoCode, <<>>, configured.err)]
       ELSE [client |-> [isNil |-> FALSE, username |-> user, password |-> password,
                         url |-> ep.url, http |-> configured.c],
             err |-> Nil]

(***************************************************************************)
(* The SOAP exchange: body / parse and the two Post methods.               *)
(*                                                                         *)
(* Both body and Post declare unnamed results (string, error).  A return   *)
(* statement copies its operands into the result slots and only then runs  *)
(* the deferred closures, so what a closure assigns to the local variables *)
(* body and err afterwards is not what the caller receives.  Each operator *)
(* below computes `results` (the operands of the return statement) and     *)
(* `locals` (the local variables once the deferred closures have run) and  *)
(* hands back `results`.                                                   *)
(***************************************************************************)

\* string(b) for a byte slice b: a string holding the same bytes.
BytesToString(b) == [i \in 1..Len(b) |-> b[i]]

\* body without the test of the content type.
body_AnyContentType(response) ==
    IF response.readErr # Nil
    THEN [str |-> <<>>, err |-> Errorf("error while reading request body", NoCode, <<>>, response.readErr), closes |-> 1]
    ELSE [str |-> BytesToString(response.Body), err |-> Nil, closes |-> 1]

\* body(response): str and err are the results, closes counts response.Body.Close().
body(response) ==
    IF Contains(response.ContentType, <<"application/soap+xml">>)
    THEN LET data == response.Body
             err == response.readErr
             results == IF err # Nil
                        THEN [str |-> <<>>, err |-> Errorf("error while reading request body", NoCode, <<>>, err)]
                        ELSE [str |-> BytesToString(data), err |-> Nil]
             errClose == response.closeErr
             locals == [err |-> IF errClose # Nil /\ err = Nil THEN errClose ELSE err]
         IN [str |-> results.str, err |-> results.err, closes |-> 1]
    ELSE [str |-> <<>>, err |-> NewError("invalid content type"), closes |-> 0]

\* parse(response) of auth.go: the same function under another name.
parse(response) ==
    IF Contains(response.ContentType, <<"application/soap+xml">>)
    THEN LET data == response.Body
             err == response.readErr
             results == IF err # Nil
                        THEN [str |-> <<>>, err |-> Errorf("error while reading request body", NoCode, <<>>, err)]
                        ELSE [str |-> BytesToString(data), err |-> Nil]
             errClose == response.closeErr
             locals == [err |-> IF errClose # Nil /\ err = Nil THEN errClose ELSE err]
         IN [str |-> results.str, err |-> results.err, closes |-> 1]
    ELSE [str |-> <<>>, err |-> NewError("invalid content type"), closes |-> 0]

\* http.NewRequest fails on a URL that does not parse.
NewRequestErr(url) == IF url = BadURL THEN NewError("parse: invalid URL escape") ELSE Nil

NoRequest == [ built |-> FALSE ]

\* The request clientRequest.Post builds (lines 91-96).
clientRequest_Request(client, request) ==
    [ built |-> TRUE, method |-> "POST", url |-> client.url, body |-> request,
      ContentType |-> soapXML \o <<";charset=UTF-8">>,
      Authorization |-> <<"Basic", client.username, client.password>> ]

\* The request of ClientAuthRequest.Post with the basic-auth header of the other
\* transport in place of the profile name.
ClientAuthRequest_Request_BasicAuth(client, request) ==
    [ built |-> TRUE, method |-> "POST", url |-> client.url, body |-> request,
      ContentType |-> soapXML \o <<";charset=UTF-8">>,
      Authorization |-> <<"Basic", client.username, client.password>> ]

\* The request ClientAuthRequest.Post builds (lines 90-96).
ClientAuthRequest_Request(client, request) ==
    [ built |-> TRUE, method |-> "POST", url |-> client.url, body |-> request,
      ContentType |-> soapXML \o <<";charset=UTF-8">>,
      Authorization |-> <<"http://schemas.dmtf.org/wbem/wsman/1/wsman/secprofile/https/mutual">> ]

\* PostTail with the test of body's error inverted.
PostTail_InvertedCheck(StatusCode, b) ==
    IF b.err = Nil
    THEN [str |-> <<>>, err |-> Errorf("http response error", StatusCode, <<>>, b.err)]
    ELSE [str |-> b.str, err |-> b.err]

\* The tail of Post once the exchange succeeded (part_000 lines 102-115, auth.go 103-116):
\* b is what body / parse returned.
PostTail(StatusCode, b) ==
    IF b.err # Nil
    THEN [str |-> <<>>, err |-> Errorf("http response error", StatusCode, <<>>, b.err)]
    ELSE LET results == [str |-> b.str, err |-> b.err]
             locals == IF StatusCode # 200
                       THEN [str |-> <<>>, err |-> Errorf("http error", StatusCode, b.str, Nil)]
                       ELSE [str |-> b.str, err |-> b.err]
         IN results

\* clientRequest.Post sending the request a second time when the first exchange
\* failed at the transport level.
clientRequest_Post_Retries(client, request, net) ==
    IF NewRequestErr(client.url) # Nil
    THEN [str |-> <<>>, err |-> Errorf("impossible to create http request", NoCode, <<>>, NewRequestErr(client.url)),
          req |-> NoRequest, exchanges |-> 0, closes |-> 0]
    ELSE IF net.doErr # Nil
    THEN [str |-> <<>>, err |-> Errorf("unknown error", NoCode, <<>>, net.doErr),
          req |-> clientRequest_Request(client, request), exchanges |-> 2, closes |-> 0]
    ELSE LET b == body(net.resp)
             r == PostTail(net.resp.StatusCode, b)
         IN [str |-> r.str, err |-> r.err,
             req |-> clientRequest_Request(client, request), exchanges |-> 1, closes |-> b.closes]

\* clientRequest.Post: what it returns, the request it built, the exchanges it made
\* and the calls of response.Body.Close.
clientRequest_Post(client, request, net) ==
    IF NewRequestErr(client.url) # Nil
    THEN [str |-> <<>>, err |-> Errorf("impossible to create http request", NoCode, <<>>, NewRequestErr(client.url)),
          req |-> NoRequest, exchanges |-> 0, closes |-> 0]
    ELSE IF net.doErr # Nil
    THEN [str |-> <<>>, err |-> Errorf("unknown error", NoCode, <<>>, net.doErr),
          req |-> clientRequest_Request(client, request), exchanges |-> 1, closes |-> 0]
    ELSE LET b == body(net.resp)
             r == PostTail(net.resp.StatusCode, b)
         IN [str |-> r.str, err |-> r.err,
             req |-> clientRequest_Request(client, request), exchanges |-> 1, closes |-> b.closes]

\* ClientAuthRequest.Post
ClientAuthRequest_Post(client, request, net) ==
    IF NewRequestErr(client.url) # Nil
    THEN [str |-> <<>>, err |-> Errorf("impossible to create http request", NoCode, <<>>, NewRequestErr(client.url)),
          req |-> NoRequest, exchanges |-> 0, closes |-> 0]
    ELSE IF net.doErr # Nil
    THEN [str |-> <<>>, err |-> Errorf("unknown error", NoCode, <<>>, net.doErr),
          req |-> ClientAuthRequest_Request(client, request), exchanges |-> 1, closes |-> 0]
    ELSE LET b == parse(net.resp)
             r == PostTail(net.resp.StatusCode, b)
         IN [str |-> r.str, err |-> r.err,
             req |-> ClientAuthRequest_Request(client, request), exchanges |-> 1, closes |-> b.closes]

\* c.sendRequest(request): c.http.Post(c, request), dispatched on the Transporter's type.
sendRequest(client, request, net) ==
    IF client.http.type = "ClientAuthRequest" THEN ClientAuthRequest_Post(client, request, net)
    ELSE clientRequest_Post(client, request, net)

(***************************************************************************)
(* SpecNew: the constructors.                                              *)
(***************************************************************************)
NoCtor == [ api |-> "none", params |-> [Dial |-> "nil", TransportDecorator |-> "nil"],
            client |-> NoClient, err |-> Nil ]

NoPost == [ called |-> FALSE, request |-> "", net |-> [doErr |-> Nil, resp |-> NoResponse],
            str |-> <<>>, err |-> Nil, req |-> NoRequest, exchanges |-> 0, closes |-> 0,
            again |-> FALSE ]

NoCall == [ api |-> "none", stdin |-> "nil", encoded |-> "" ]

NoShell == [ isNil |-> TRUE ]

\* CreateShell has not been called: no shell, no error.
NoCreate == [ called |-> FALSE, sh |-> NoShell, err |-> Nil, postErr |-> Nil, parseErr |-> Nil, parsedID |-> "" ]

NoCmd == [ isNil |-> TRUE ]

NoRet == [ returned |-> FALSE, stdout |-> <<>>, stderr |-> <<>>, code |-> 0, err |-> Nil ]

RunIdle ==
    /\ pc = "idle"
    /\ call = NoCall
    /\ shell = NoCreate
    /\ cmd = NoCmd
    /\ pump = [stdin |-> "notStarted", stdout |-> "notStarted", stderr |-> "notStarted"]
    /\ wg = 0
    /\ io = [stdinLeft |-> 0, stdinReads |-> 0, out |-> <<>>, err |-> <<>>]
    /\ ctx = [canceled |-> FALSE]
    /\ hist = [failed |-> {}, posted |-> FALSE, shellCloses |-> 0, cmdCloses |-> 0]
    /\ ret = NoRet

InitNew ==
    /\ endpoint \in Endpoints
    /\ ctor = NoCtor
    /\ post = NoPost
    /\ RunIdle

\* A call of NewClientWithParameters(endpoint, user, password, params).
NewClientWithParametersCall ==
    /\ ctor.api = "none"
    /\ \E user \in Usernames, password \in Passwords, params \in ParametersSet :
          LET r == NewClientWithParameters(endpoint, user, password, params)
          IN ctor' = [api |-> "NewClientWithParameters", params |-> params,
                      client |-> r.client, err |-> r.err]
    /\ UNCHANGED <<endpoint, post>>
    /\ UNCHANGED runVars

\* A call of NewClient(endpoint, user, password): DefaultParameters is a package
\* variable, holding whatever Parameters the program left there.
NewClientCall ==
    /\ ctor.api = "none"
    /\ \E user \in Usernames, password \in Passwords, DefaultParameters \in ParametersSet :
          LET r == NewClientWithParameters(endpoint, user, password, DefaultParameters)
          IN ctor' = [api |-> "NewClient", params |-> DefaultParameters,
                      client |-> r.client, err |-> r.err]
    /\ UNCHANGED <<endpoint, post>>
    /\ UNCHANGED runVars

NextNew ==
    \/ NewClientWithParametersCall
    \/ NewClientCall

SpecNew == InitNew /\ [][NextNew]_vars

(***************************************************************************)
(* SpecPost: Post on the transport of a constructed Client.                *)
(***************************************************************************)
\* Endpoints with parseable certificate material, for which both transports configure.
PostEndpoints ==
    { ep \in Endpoints : /\ ep.Cert = <<"CERT A">>
                         /\ ep.Key = <<"KEY A">>
                         /\ ep.CACert \in { <<>>, <<"CERT CA">> } }

PostParameters == { p \in ParametersSet : p.Dial = "nil" /\ p.TransportDecorator \in {"nil", "ClientAuthRequest"} }

SoapMessages == {"OpenShell"}

\* The credentials of the Clients that post: two users, differing in both.
PostCredentials == { <<"alice", "secret">>, <<"bob", "hunter2">> }

InitPost ==
    /\ endpoint \in PostEndpoints
    /\ \E cred \in PostCredentials, params \in PostParameters :
          LET user == cred[1]
              password == cred[2]
              r == NewClientWithParameters(endpoint, user, password, params)
          IN ctor = [api |-> "NewClientWithParameters", params |-> params,
                     client |-> r.client, err |-> r.err]
    /\ post = NoPost
    /\ RunIdle

\* What the last Post was given and did; again tells that it was not the first.
PostRecord(request, net, r) ==
    [ called |-> TRUE, request |-> request, net |-> net, str |-> r.str, err |-> r.err,
      req |-> r.req, exchanges |-> r.exchanges, closes |-> r.closes, again |-> post.called ]

\* clientRequest.Post with a pointer receiver that drops the transport it used.
clientRequest_PostCall_DropsTransport ==
    /\ ~ctor.client.isNil
    /\ ctor.client.http.type = "clientRequest"
    /\ \E request \in SoapMessages, net \in NetOutcomes :
          post' = PostRecord(request, net, clientRequest_Post(ctor.client, request, net))
    /\ ctor' = [ctor EXCEPT !.client.http.transport = NoTransport]
    /\ UNCHANGED endpoint
    /\ UNCHANGED runVars

\* client.http.Post(client, request) on the basic-auth transport.  Post has a value
\* receiver and assigns no field of it: the Client and its Transporter stay as they are.
clientRequest_PostCall ==
    /\ ~ctor.client.isNil
    /\ ctor.client.http.type = "clientRequest"
    /\ \E request \in SoapMessages, net \in NetOutcomes :
          post' = PostRecord(request, net, clientRequest_Post(ctor.client, request, net))
    /\ UNCHANGED <<endpoint, ctor>>
    /\ UNCHANGED runVars

\* client.http.Post(client, request) on the mutual-TLS transport.
ClientAuthRequest_PostCall ==
    /\ ~ctor.client.isNil
    /\ ctor.client.http.type = "ClientAuthRequest"
    /\ \E request \in SoapMessages, net \in NetOutcomes :
          post' = PostRecord(request, net, ClientAuthRequest_Post(ctor.client, request, net))
    /\ UNCHANGED <<endpoint, ctor>>
    /\ UNCHANGED runVars

NextPost ==
    \/ clientRequest_PostCall
    \/ ClientAuthRequest_PostCall

SpecPost == InitPost /\ [][NextPost]_vars

(***************************************************************************)
(* Spec: one call of the Run* family.                                      *)
(*                                                                         *)
(* Shell and Command are not part of the files modelled here line by line: *)
(* their operations (ExecuteWithContext, Close, Wait, ExitCode, the stdin  *)
(* writer and the receive loop feeding cmd.Stdout / cmd.Stderr) follow the *)
(* design's description of the Shell and of the Command streaming          *)
(* protocol.  The envelope builders and parsers are collaborators: what a  *)
(* parser returns for a response is an input of the step that calls it.    *)
(***************************************************************************)
FailureSentinel == 1

MaxFrags == 1     \* output fragments the remote command produces per stream

\* What the network does in the steps of a Run* call: a 200 SOAP answer, a 500 SOAP
\* fault, a refused connection.
RunNetOutcomes ==
    { n \in NetOutcomes :
        \/ n.doErr # Nil
        \/ /\ n.resp.Body = <<1>>
           /\ n.resp.readErr = Nil
           /\ n.resp.closeErr = Nil
           /\ n.resp.ContentType = <<"application/soap+xml", ";charset=UTF-8">> }

RunEndpoints == { ep \in PostEndpoints : ep.CACert = <<>> /\ ep.url = GoodURL }

Init ==
    /\ endpoint \in RunEndpoints
    /\ \E params \in PostParameters :
          LET r == NewClientWithParameters(endpoint, "alice", "secret", params)
          IN ctor = [api |-> "NewClientWithParameters", params |-> params,
                     client |-> r.client, err |-> r.err]
    /\ post = NoPost
    /\ RunIdle

\* What ParseOpenShellResponse returns: a shell ID, or an error.
OpenShellParses ==
    { [id |-> "shell-1", err |-> Nil],
      [id |-> "", err |-> NewError("no shell id in response")] }

\* c.NewShell(id)
NewShell(client, id) == [isNil |-> FALSE, client |-> client, id |-> id]

\* CreateShell with the error of ParseOpenShellResponse ignored.
CreateShell_IgnoresParseError(client, net, parsed) ==
    LET response == sendRequest(client, "OpenShell", net)
    IN IF response.err # Nil THEN [sh |-> NoShell, err |-> response.err]
       ELSE [sh |-> NewShell(client, parsed.id), err |-> Nil]

\* (*Client).CreateShell: (shell, err).
CreateShell(client, net, parsed) ==
    LET response == sendRequest(client, "OpenShell", net)
    IN IF response.err # Nil THEN [sh |-> NoShell, err |-> response.err]
       ELSE IF parsed.err # Nil THEN [sh |-> NoShell, err |-> parsed.err]
       ELSE [sh |-> NewShell(client, parsed.id), err |-> Nil]

\* The stdin argument of the call and what the caller's reader does once it has
\* delivered its chunks: "eof" ends, "blocks" never returns from Read, "fails"
\* returns an error.
StdinKinds == {"nil", "eof", "blocks", "fails"}

\* A Post was made on the transport.
Posted == [hist EXCEPT !.posted = TRUE]

Failed(h, step, err) == IF err # Nil THEN [h EXCEPT !.failed = @ \cup {step}] ELSE h

\* Entry into RunWithContextWithInput from the caller or from a wrapper.
Enter(api, stdin, chunks, encoded) ==
    /\ pc = "idle"
    /\ pc' = "createShell"
    /\ call' = [api |-> api, stdin |-> stdin, encoded |-> encoded]
    /\ io' = [io EXCEPT !.stdinLeft = chunks]
    /\ UNCHANGED <<shell, cmd, pump, wg, ctx, hist, ret>>
    /\ UNCHANGED transportVars

\* RunWithContextWithInput(ctx, command, stdout, stderr, stdin)
RunWithContextWithInput ==
    \E stdin \in StdinKinds, chunks \in 0..MaxChunks :
        /\ stdin = "nil" => chunks = 0
        /\ Enter("RunWithContextWithInput", stdin, chunks, "")

\* RunWithContext: RunWithContextWithInput with a nil stdin.
RunWithContext == Enter("RunWithContext", "nil", 0, "")

\* RunCmdWithContext: RunWithContextWithInput with buffers and a nil stdin.
RunCmdWithContext == Enter("RunCmdWithContext", "nil", 0, "")

\* RunWithContextWithString: stdin is strings.NewReader(stdin), which ends.
RunWithContextWithString ==
    \E chunks \in 0..MaxChunks : Enter("RunWithContextWithString", "eof", chunks, "")

\* What Powershell(command) returns: the encoded command line, or "" on failure.
Encodings == {"", "powershell.exe -EncodedCommand AAAA"}

\* The early return of the PowerShell variants (lines 161-163, 175-177).
EncodingFailed(api) ==
    /\ pc = "idle"
    /\ pc' = "returned"
    /\ call' = [api |-> api, stdin |-> "nil", encoded |-> ""]
    /\ ret' = [returned |-> TRUE, stdout |-> <<>>, stderr |-> <<>>, code |-> 1,
               err |-> NewError("cannot encode the given command")]
    /\ UNCHANGED <<shell, cmd, pump, wg, io, ctx, hist>>
    /\ UNCHANGED transportVars

\* RunPSWithContextWithString with the test of the encoded command left out.
RunPSWithContextWithString_Unchecked ==
    \E encoded \in Encodings, chunks \in 0..MaxChunks :
        Enter("RunPSWithContextWithString", "eof", chunks, encoded)

\* RunPSWithContextWithString(ctx, command, stdin)
RunPSWithContextWithString ==
    \E encoded \in Encodings :
        IF encoded = "" THEN EncodingFailed("RunPSWithContextWithString")
        ELSE \E chunks \in 0..MaxChunks :
                Enter("RunPSWithContextWithString", "eof", chunks, encoded)

\* RunPSWithString: RunPSWithContextWithString under context.Background().
RunPSWithString ==
    \E encoded \in Encodings :
        IF encoded = "" THEN EncodingFailed("RunPSWithString")
        ELSE \E chunks \in 0..MaxChunks :
                Enter("RunPSWithString", "eof", chunks, encoded)

\* RunPSWithContext(ctx, command)
RunPSWithContext ==
    \E encoded \in Encodings :
        IF encoded = "" THEN EncodingFailed("RunPSWithContext")
        ELSE Enter("RunPSWithContext", "nil", 0, encoded)

(***************************************************************************)
(* The goroutine of RunWithContextWithInput.                               *)
(***************************************************************************)
\* Lines 204-207 returning 0 with the error of CreateShell.
RunCreateShell_ReturnsZero ==
    /\ pc = "createShell"
    /\ \E net \in RunNetOutcomes, parsed \in OpenShellParses :
          LET r == CreateShell(ctor.client, net, parsed)
              response == sendRequest(ctor.client, "OpenShell", net)
          IN /\ shell' = [called |-> TRUE, sh |-> r.sh, err |-> r.err, postErr |-> response.err,
                          parseErr |-> IF response.err = Nil THEN parsed.err ELSE Nil,
                          parsedID |-> IF response.err = Nil THEN parsed.id ELSE ""]
             /\ hist' = Failed(Posted, "open", r.err)
             /\ IF r.err # Nil
                THEN /\ pc' = "returned"
                     /\ ret' = [NoRet EXCEPT !.returned = TRUE, !.code = 0, !.err = r.err]
                ELSE /\ pc' = "execute"
                     /\ ret' = ret
    /\ UNCHANGED <<call, cmd, pump, wg, io, ctx>>
    /\ UNCHANGED transportVars

\* Line 204-207: CreateShell; on error return 1, err (no defer is registered yet).
RunCreateShell ==
    /\ pc = "createShell"
    /\ \E net \in RunNetOutcomes, parsed \in OpenShellParses :
          LET r == CreateShell(ctor.client, net, parsed)
              response == sendRequest(ctor.client, "OpenShell", net)
          IN /\ shell' = [called |-> TRUE, sh |-> r.sh, err |-> r.err, postErr |-> response.err,
                          parseErr |-> IF response.err = Nil THEN parsed.err ELSE Nil,
                          parsedID |-> IF response.err = Nil THEN parsed.id ELSE ""]
             /\ hist' = Failed(Posted, "open", r.err)
             /\ IF r.err # Nil
                THEN /\ pc' = "returned"
                     /\ ret' = [NoRet EXCEPT !.returned = TRUE, !.code = 1, !.err = r.err]
                ELSE /\ pc' = "execute"
                     /\ ret' = ret
    /\ UNCHANGED <<call, cmd, pump, wg, io, ctx>>
    /\ UNCHANGED transportVars

\* What ParseExecuteCommandResponse returns: a command ID, or an error.
CommandParses ==
    { [id |-> "cmd-1", err |-> Nil],
      [id |-> "", err |-> NewError("no command id in response")] }

\* shell.ExecuteWithContext(ctx, command): sends the create-command envelope and
\* returns a Command in its Running state, whose receive loop polls.
ExecuteWithContext(client, net, parsed) ==
    LET response == sendRequest(client, "ExecuteCommand", net)
    IN IF response.err # Nil THEN [cmd |-> NoCmd, err |-> response.err]
       ELSE IF parsed.err # Nil THEN [cmd |-> NoCmd, err |-> parsed.err]
       ELSE [cmd |-> [isNil |-> FALSE, id |-> parsed.id, state |-> "Running", exitCode |-> 0,
                      err |-> Nil, canceled |-> FALSE, loop |-> "polling", polls |-> 0,
                      outPipe |-> 0, errPipe |-> 0, outMade |-> 0, errMade |-> 0,
                      stdinClosed |-> FALSE, stdinWrites |-> 0],
             err |-> Nil]

\* Lines 208-212 with `defer shell.Close()` placed after the test of the error of
\* ExecuteWithContext: a failed execute returns without closing the shell.
RunExecute_DeferAfterCheck ==
    /\ pc = "execute"
    /\ \E net \in RunNetOutcomes, parsed \in CommandParses :
          LET r == ExecuteWithContext(ctor.client, net, parsed)
          IN /\ cmd' = r.cmd
             /\ hist' = Failed(Posted, "execute", r.err)
             /\ IF r.err # Nil
                THEN /\ pc' = "returned"
                     /\ ret' = [NoRet EXCEPT !.returned = TRUE, !.code = 1, !.err = r.err]
                ELSE /\ pc' = "spawn"
                     /\ ret' = ret
    /\ UNCHANGED <<call, shell, pump, wg, io, ctx>>
    /\ UNCHANGED transportVars

\* Lines 208-212: defer shell.Close(); ExecuteWithContext; on error return 1, err,
\* which runs the deferred Close before the call returns.
RunExecute ==
    /\ pc = "execute"
    /\ \E net \in RunNetOutcomes, parsed \in CommandParses :
          LET r == ExecuteWithContext(ctor.client, net, parsed)
          IN /\ cmd' = r.cmd
             /\ hist' = Failed(Posted, "execute", r.err)
             /\ IF r.err # Nil
                THEN /\ pc' = "deferredClose"
                     /\ ret' = [NoRet EXCEPT !.code = 1, !.err = r.err]
                ELSE /\ pc' = "spawn"
                     /\ ret' = ret
    /\ UNCHANGED <<call, shell, pump, wg, io, ctx>>
    /\ UNCHANGED transportVars

\* Lines 214-236: wg.Add(3) and the three go statements.
RunSpawn ==
    /\ pc = "spawn"
    /\ wg' = 3
    /\ pump' = [stdin |-> "started", stdout |-> "copying", stderr |-> "copying"]
    /\ pc' = "cmdWait"
    /\ UNCHANGED <<call, shell, cmd, io, ctx, hist, ret>>
    /\ UNCHANGED transportVars

\* Line 238 left out: the goroutine goes on to the join without waiting for the Command.
RunCmdWait_NoWait ==
    /\ pc = "cmdWait"
    /\ pc' = "wgWait"
    /\ UNCHANGED <<call, shell, cmd, pump, wg, io, ctx, hist, ret>>
    /\ UNCHANGED transportVars

\* Line 238: cmd.Wait() returns once the Command has reached a terminal state.
RunCmdWait ==
    /\ pc = "cmdWait"
    /\ cmd.loop = "stopped"
    /\ pc' = "wgWait"
    /\ UNCHANGED <<call, shell, cmd, pump, wg, io, ctx, hist, ret>>
    /\ UNCHANGED transportVars

\* Line 239 left out: the goroutine goes on without joining the pumps.
RunWgWait_NoJoin ==
    /\ pc = "wgWait"
    /\ pc' = "cmdClose"
    /\ UNCHANGED <<call, shell, cmd, pump, wg, io, ctx, hist, ret>>
    /\ UNCHANGED transportVars

\* Line 239: wg.Wait() returns once the counter is zero.
RunWgWait ==
    /\ pc = "wgWait"
    /\ wg = 0
    /\ pc' = "cmdClose"
    /\ UNCHANGED <<call, shell, cmd, pump, wg, io, ctx, hist, ret>>
    /\ UNCHANGED transportVars

\* cmd.ExitCode(): the captured code, or the failure sentinel when the command was
\* canceled or failed before reaching Done.
ExitCode(c) == IF c.state = "Done" THEN c.exitCode ELSE FailureSentinel

\* Lines 240-242 returning a nil error whatever the Command's error slot holds.
RunCmdCloseAndReturn_NilError ==
    /\ pc = "cmdClose"
    /\ \E net \in RunNetOutcomes :
          LET r == sendRequest(ctor.client, "DeleteCommand", net)
          IN hist' = [Failed(Posted, "cmdClose", r.err) EXCEPT !.cmdCloses = @ + 1]
    /\ ret' = [NoRet EXCEPT !.code = ExitCode(cmd), !.err = Nil]
    /\ pc' = "deferredClose"
    /\ UNCHANGED <<call, shell, cmd, pump, wg, io, ctx>>
    /\ UNCHANGED transportVars

\* Lines 240-242: cmd.Close(), its error discarded; then the operands of
\* `return cmd.ExitCode(), cmd.err` are evaluated.
RunCmdCloseAndReturn ==
    /\ pc = "cmdClose"
    /\ \E net \in RunNetOutcomes :
          LET r == sendRequest(ctor.client, "DeleteCommand", net)
          IN hist' = [Failed(Posted, "cmdClose", r.err) EXCEPT !.cmdCloses = @ + 1]
    /\ ret' = [NoRet EXCEPT !.code = ExitCode(cmd), !.err = cmd.err]
    /\ pc' = "deferredClose"
    /\ UNCHANGED <<call, shell, cmd, pump, wg, io, ctx>>
    /\ UNCHANGED transportVars

\* The APIs that return stdout and stderr as strings (the buffers' contents).
StringAPIs ==
    {"RunCmdWithContext", "RunWithContextWithString", "RunPSWithContextWithString",
     "RunPSWithString", "RunPSWithContext"}

\* Line 208: the deferred shell.Close() runs, its error discarded (the results are
\* unnamed and already set); the call returns to the caller.
RunDeferredShellClose ==
    /\ pc = "deferredClose"
    /\ \E net \in RunNetOutcomes :
          LET r == sendRequest(ctor.client, "DeleteShell", net)
          IN hist' = [Failed(Posted, "shellClose", r.err) EXCEPT !.shellCloses = @ + 1]
    /\ ret' = [ret EXCEPT !.returned = TRUE,
                          !.stdout = IF call.api \in StringAPIs THEN io.out ELSE <<>>,
                          !.stderr = IF call.api \in StringAPIs THEN io.err ELSE <<>>]
    /\ pc' = "returned"
    /\ UNCHANGED <<call, shell, cmd, pump, wg, io, ctx>>
    /\ UNCHANGED transportVars

(***************************************************************************)
(* The three pump goroutines (lines 217-236).                              *)
(***************************************************************************)
\* The Command's error slot keeps the first error.
Latch(c, err) == IF c.err = Nil THEN [c EXCEPT !.err = err] ELSE c

\* Lines 217-223 without the test of a nil stdin.
StdinPumpStart_NoNilCheck ==
    /\ pump.stdin = "started"
    /\ pump' = [pump EXCEPT !.stdin = "copying"]
    /\ UNCHANGED <<pc, call, shell, cmd, wg, io, ctx, hist, ret>>
    /\ UNCHANGED transportVars

\* Lines 217-226: with a nil stdin the goroutine returns at once, running only the
\* deferred wg.Done(); otherwise it goes on to io.Copy.
StdinPumpStart ==
    /\ pump.stdin = "started"
    /\ IF call.stdin = "nil"
       THEN /\ pump' = [pump EXCEPT !.stdin = "done"]
            /\ wg' = wg - 1
       ELSE /\ pump' = [pump EXCEPT !.stdin = "copying"]
            /\ wg' = wg
    /\ UNCHANGED <<pc, call, shell, cmd, io, ctx, hist, ret>>
    /\ UNCHANGED transportVars

\* Line 227: one round of io.Copy(cmd.Stdin, stdin): a Read of the caller's source,
\* then a Write to the Command's stdin sink (a send-input exchange; no more input is
\* forwarded once the cancellation signal has fired).  The error io.Copy returns is
\* discarded.
StdinPumpCopy ==
    /\ pump.stdin = "copying"
    /\ \/ /\ io.stdinLeft > 0
          /\ io' = [io EXCEPT !.stdinLeft = @ - 1, !.stdinReads = @ + 1]
          /\ IF ctx.canceled
             THEN /\ cmd' = cmd
                  /\ hist' = Failed(hist, "stdinCopy", NewError("canceled"))
                  /\ pump' = [pump EXCEPT !.stdin = "closing"]
             ELSE \E net \in RunNetOutcomes :
                    LET w == sendRequest(ctor.client, "SendInput", net)
                    IN /\ cmd' = IF w.err # Nil THEN Latch(cmd, w.err)
                                 ELSE [cmd EXCEPT !.stdinWrites = @ + 1]
                       /\ hist' = Failed(Posted, "stdinCopy", w.err)
                       /\ pump' = [pump EXCEPT !.stdin = IF w.err # Nil THEN "closing" ELSE "copying"]
       \/ /\ io.stdinLeft = 0
          /\ call.stdin = "eof"
          /\ io' = [io EXCEPT !.stdinReads = @ + 1]
          /\ pump' = [pump EXCEPT !.stdin = "closing"]
          /\ UNCHANGED <<cmd, hist>>
       \/ /\ io.stdinLeft = 0
          /\ call.stdin = "fails"
          /\ io' = [io EXCEPT !.stdinReads = @ + 1]
          /\ pump' = [pump EXCEPT !.stdin = "closing"]
          /\ hist' = Failed(hist, "stdinCopy", NewError("read error"))
          /\ cmd' = cmd
    /\ UNCHANGED <<pc, call, shell, wg, ctx, ret>>
    /\ UNCHANGED transportVars

\* Lines 224-226 and 218-220: the deferred cmd.Stdin.Close() (the final chunk that
\* marks end of input), then the deferred wg.Done().
StdinPumpClose ==
    /\ pump.stdin = "closing"
    /\ \E net \in RunNetOutcomes :
          LET w == sendRequest(ctor.client, "SendInputEOF", net)
          IN /\ cmd' = [(IF w.err # Nil THEN Latch(cmd, w.err) ELSE cmd) EXCEPT !.stdinClosed = TRUE]
             /\ hist' = Posted
    /\ pump' = [pump EXCEPT !.stdin = "done"]
    /\ wg' = wg - 1
    /\ UNCHANGED <<pc, call, shell, io, ctx, ret>>
    /\ UNCHANGED transportVars

\* Lines 229-232: io.Copy(stdout, cmd.Stdout): a fragment is read from the Command
\* and written to the caller's sink, which may refuse it; the end of the stream or
\* any error ends the copy, its error discarded, and wg.Done() runs.
StdoutPump ==
    /\ pump.stdout = "copying"
    /\ \/ /\ cmd.outPipe > 0
          /\ cmd' = [cmd EXCEPT !.outPipe = @ - 1]
          /\ \/ /\ io' = [io EXCEPT !.out = Append(@, "o")]
                /\ UNCHANGED <<pump, wg, hist>>
             \/ /\ hist' = Failed(hist, "stdoutCopy", NewError("short write"))
                /\ pump' = [pump EXCEPT !.stdout = "done"]
                /\ wg' = wg - 1
                /\ io' = io
       \/ /\ cmd.outPipe = 0
          /\ cmd.loop = "stopped"
          /\ pump' = [pump EXCEPT !.stdout = "done"]
          /\ wg' = wg - 1
          /\ UNCHANGED <<cmd, io, hist>>
    /\ UNCHANGED <<pc, call, shell, ctx, ret>>
    /\ UNCHANGED transportVars

\* Lines 233-236: io.Copy(stderr, cmd.Stderr).
StderrPump ==
    /\ pump.stderr = "copying"
    /\ \/ /\ cmd.errPipe > 0
          /\ cmd' = [cmd EXCEPT !.errPipe = @ - 1]
          /\ \/ /\ io' = [io EXCEPT !.err = Append(@, "e")]
                /\ UNCHANGED <<pump, wg, hist>>
             \/ /\ hist' = Failed(hist, "stderrCopy", NewError("short write"))
                /\ pump' = [pump EXCEPT !.stderr = "done"]
                /\ wg' = wg - 1
                /\ io' = io
       \/ /\ cmd.errPipe = 0
          /\ cmd.loop = "stopped"
          /\ pump' = [pump EXCEPT !.stderr = "done"]
          /\ wg' = wg - 1
          /\ UNCHANGED <<cmd, io, hist>>
    /\ UNCHANGED <<pc, call, shell, ctx, ret>>
    /\ UNCHANGED transportVars

(***************************************************************************)
(* The Command's receive loop and the cancellation signal.                 *)
(***************************************************************************)
\* What the parser finds in a receive response: fragments for stdout and stderr and
\* the command state (with the exit code when Done).
ReceiveParses ==
    { [out |-> o, err |-> e, done |-> d, exitCode |-> x, perr |-> Nil] :
        o \in 0..1, e \in 0..1, d \in BOOLEAN, x \in {0, 3} }

\* One poll of the receive loop: decoded fragments go to cmd.Stdout / cmd.Stderr; a
\* response reporting Done captures the exit code and ends the loop; an error is
\* latched and ends the loop.
ReceivePoll ==
    /\ pc \in {"cmdWait", "spawn"}
    /\ cmd.loop = "polling"
    /\ ~ctx.canceled
    /\ \E net \in RunNetOutcomes, parsed \in ReceiveParses :
          LET r == sendRequest(ctor.client, "Receive", net)
              e == IF r.err # Nil THEN r.err ELSE parsed.perr
          IN /\ hist' = Posted
             /\ IF e # Nil
                THEN cmd' = [Latch(cmd, e) EXCEPT !.loop = "stopped"]
                ELSE /\ cmd.outMade + parsed.out <= MaxFrags
                     /\ cmd.errMade + parsed.err <= MaxFrags
                     /\ parsed.done \/ cmd.polls < MaxPolls
                     /\ ~parsed.done => parsed.exitCode = 0
                     /\ cmd' = [cmd EXCEPT !.outPipe = @ + parsed.out, !.outMade = @ + parsed.out,
                                           !.errPipe = @ + parsed.err, !.errMade = @ + parsed.err,
                                           !.polls = IF parsed.done THEN @ ELSE @ + 1,
                                           !.state = IF parsed.done THEN "Done" ELSE @,
                                           !.exitCode = IF parsed.done THEN parsed.exitCode ELSE @,
                                           !.loop = IF parsed.done THEN "stopped" ELSE @]
    /\ UNCHANGED <<pc, call, shell, pump, wg, io, ctx, ret>>
    /\ UNCHANGED transportVars

\* The loop observes the cancellation signal before Done: it latches the
\* cancellation, issues one terminate signal and stops polling.
ReceiveCancel ==
    /\ pc \in {"cmdWait", "spawn"}
    /\ cmd.loop = "polling"
    /\ ctx.canceled
    /\ \E net \in RunNetOutcomes :
          LET r == sendRequest(ctor.client, "Signal", net)
          IN hist' = Posted
    /\ cmd' = [Latch(cmd, NewError("context canceled")) EXCEPT !.canceled = TRUE, !.loop = "stopped"]
    /\ UNCHANGED <<pc, call, shell, pump, wg, io, ctx, ret>>
    /\ UNCHANGED transportVars

\* The caller's cancellation signal fires (context.Background() never does).
Cancel ==
    /\ ~ctx.canceled
    /\ pc \notin {"idle", "returned"}
    /\ call.api # "RunPSWithString"
    /\ ctx' = [canceled |-> TRUE]
    /\ UNCHANGED <<pc, call, shell, cmd, pump, wg, io, hist, ret>>
    /\ UNCHANGED transportVars

Next ==
    \/ RunWithContextWithInput
    \/ RunWithContext
    \/ RunCmdWithContext
    \/ RunWithContextWithString
    \/ RunPSWithContextWithString
    \/ RunPSWithString
    \/ RunPSWithContext
    \/ RunCreateShell
    \/ RunExecute
    \/ RunSpawn
    \/ RunCmdWait
    \/ RunWgWait
    \/ RunCmdCloseAndReturn
    \/ RunDeferredShellClose
    \/ StdinPumpStart
    \/ StdinPumpCopy
    \/ StdinPumpClose
    \/ StdoutPump
    \/ StderrPump
    \/ ReceivePoll
    \/ ReceiveCancel
    \/ Cancel

Spec == Init /\ [][Next]_vars

\* The Go scheduler runs every goroutine that can take a step; the caller and the
\* cancellation signal are under no obligation.
Fairness ==
    /\ WF_vars(RunCreateShell)
    /\ WF_vars(RunExecute)
    /\ WF_vars(RunSpawn)
    /\ WF_vars(RunCmdWait)
    /\ WF_vars(RunWgWait)
    /\ WF_vars(RunCmdCloseAndReturn)
    /\ WF_vars(RunDeferredShellClose)
    /\ WF_vars(StdinPumpStart)
    /\ WF_vars(StdinPumpCopy)
    /\ WF_vars(StdinPumpClose)
    /\ WF_vars(StdoutPump)
    /\ WF_vars(StderrPump)
    /\ WF_vars(ReceivePoll)
    /\ WF_vars(ReceiveCancel)

FairSpec == Spec /\ Fairness

(***************************************************************************)
(* Claims on the transports (SpecPost) and the constructors (SpecNew).     *)
(***************************************************************************)
\* Post obtained a response: the request was built and the exchange succeeded.
GotResponse == post.called /\ post.req.built /\ post.net.doErr = Nil

SoapContentType == Contains(post.net.resp.ContentType, soapXML)

\* The error chain names the status code / carries the body text.
EmbedsStatus(err, status) == \E i \in 1..Len(err) : err[i].code = status

EmbedsText(err, text) == \E i \in 1..Len(err) : err[i].msg = "http error" /\ err[i].text = text

\* C1: in both transports, a response with a SOAP content type and a status other
\* than 200 makes Post return an empty body and a non-nil error that embeds the
\* status code and the body text; never the body with a nil error.
C1_NonOKStatusIsError ==
    (GotResponse /\ SoapContentType /\ post.net.resp.StatusCode # 200)
        => /\ post.str = <<>>
           /\ post.err # Nil
           /\ EmbedsStatus(post.err, post.net.resp.StatusCode)
           /\ (post.net.resp.readErr = Nil => EmbedsText(post.err, post.net.resp.Body))

\* C2: in both transports and for every status code, a response whose content type
\* does not contain application/soap+xml makes Post return an empty body and a
\* non-nil error.
C2_WrongContentTypeIsError ==
    (GotResponse /\ ~SoapContentType) => (post.str = <<>> /\ post.err # Nil)

C2_Witness ==
    /\ GotResponse
    /\ ctor.client.http.type = "ClientAuthRequest"
    /\ post.net.resp.ContentType = <<"text/html">>
    /\ post.net.resp.StatusCode = 200
    /\ post.net.resp.readErr = Nil
    /\ Len(post.net.resp.Body) > 0
    /\ post.err # Nil

MalformedPEM(pem, kind) == Len(pem) > 0 /\ Blocks(pem, kind) = <<>>

\* The Transport Strategy the parameters select.
Strategy(params) ==
    IF params.TransportDecorator = "nil" THEN "clientRequest"
    ELSE Decorate(params.TransportDecorator).type

NoClientReturned == ctor.client.isNil /\ ctor.err # Nil

\* C4 as stated: malformed certificate, key or CA bytes make the constructor return
\* an error and no Client, whichever Transport Strategy is selected.
C4_Original ==
    (/\ ctor.api # "none"
     /\ \/ MalformedPEM(endpoint.Cert, CertBlocks)
        \/ MalformedPEM(endpoint.Key, KeyBlocks)
        \/ MalformedPEM(endpoint.CACert, CertBlocks))
        => NoClientReturned

\* C4 as amended: malformed CA bytes make the constructor fail under either
\* strategy; a malformed client certificate or key makes it fail under the
\* mutual-TLS strategy only, the basic-auth strategy never reading them: there the
\* constructor fails exactly when non-empty CA bytes hold no certificate.
C4_MalformedMaterialFails ==
    ctor.api # "none" =>
        /\ MalformedPEM(endpoint.CACert, CertBlocks) => NoClientReturned
        /\ (/\ Strategy(ctor.params) = "ClientAuthRequest"
            /\ \/ MalformedPEM(endpoint.Cert, CertBlocks)
               \/ MalformedPEM(endpoint.Key, KeyBlocks))
              => NoClientReturned
        /\ Strategy(ctor.params) = "clientRequest"
              => (NoClientReturned <=> MalformedPEM(endpoint.CACert, CertBlocks))
        /\ ctor.client.isNil <=> ctor.err # Nil

C4_Witness ==
    /\ ctor.api = "NewClient"
    /\ Strategy(ctor.params) = "ClientAuthRequest"
    /\ endpoint.Cert = <<"CERT A">>
    /\ MalformedPEM(endpoint.Key, KeyBlocks)
    /\ endpoint.CACert = <<"CERT CA">>
    /\ NoClientReturned

(***************************************************************************)
(* Claims on the Run* family (Spec, FairSpec).                             *)
(***************************************************************************)
Returned == pc = "returned"

ShellOpened == ~shell.sh.isNil

\* C5: RunWithContextWithInput closes the shell on every exit path: a shell it
\* opened has Close invoked exactly once by the time the call returns, never more
\* than once, and a call that opened no shell closes none.
C5_ShellClosedOnEveryExit ==
    /\ hist.shellCloses <= 1
    /\ (Returned /\ ShellOpened) => hist.shellCloses = 1
    /\ ~ShellOpened => hist.shellCloses = 0
    /\ hist.shellCloses = 1 => Returned

C5_Witness ==
    /\ Returned
    /\ ShellOpened
    /\ "execute" \in hist.failed
    /\ ctx.canceled
    /\ hist.shellCloses = 1

\* The entry points that hand a nil stdin to RunWithContextWithInput.
NilStdinAPIs == {"RunWithContext", "RunCmdWithContext", "RunPSWithContext"}

\* C6: with a nil stdin source the stdin goroutine finishes at once: it never
\* copies, reads the source, writes or closes the Command's stdin sink, and its one
\* step is never blocked, so the join waits only for the other two pumps.
C6_NilStdinFinishesAtOnce ==
    /\ call.api \in NilStdinAPIs => call.stdin = "nil"
    /\ (call.stdin = "nil" /\ call.api # "none") =>
          /\ pump.stdin \in {"notStarted", "started", "done"}
          /\ io.stdinReads = 0
          /\ ~cmd.isNil => (cmd.stdinWrites = 0 /\ ~cmd.stdinClosed)
          /\ pump.stdin = "started" => ENABLED StdinPumpStart
          /\ (pump.stdout = "done" /\ pump.stderr = "done" /\ pump.stdin = "done") => wg = 0

C6_Witness ==
    /\ call.api = "RunCmdWithContext"
    /\ Returned
    /\ pump.stdin = "done"
    /\ ~cmd.isNil
    /\ cmd.state = "Done"
    /\ io.out # <<>>

PSAPIs == {"RunPSWithContextWithString", "RunPSWithContext", "RunPSWithString"}

\* C7: in the PowerShell variants an encoder result of "" makes the call return
\* empty stdout and stderr, exit code 1 and a non-nil error, with no remote call:
\* no CreateShell, no Command, no Post.
C7_EncodingFailureMakesNoRemoteCall ==
    (call.api \in PSAPIs /\ call.encoded = "") =>
        /\ Returned
        /\ ret.returned
        /\ ret.stdout = <<>>
        /\ ret.stderr = <<>>
        /\ ret.code = 1
        /\ ret.err # Nil
        /\ ~hist.posted
        /\ ~shell.called
        /\ cmd.isNil

C7_Witness ==
    /\ call.api = "RunPSWithContextWithString"
    /\ call.encoded = ""
    /\ Returned
    /\ ret.err # Nil

\* C8 as stated: whenever a step of RunWithContextWithInput failed (open shell,
\* execute, a pump copy, command close, shell close) the call returns a non-nil error.
C8_Original ==
    (Returned /\ hist.failed # {}) => ret.err # Nil

\* C8 as amended: a failed open-shell or execute-command makes the call return
\* that step's error (non-nil, with exit code 1); once the command was executed the
\* call returns the Command's error slot, whatever the pump copies, the command's
\* Close and the shell's Close returned.
C8_SurfacedErrors ==
    (Returned /\ ~(call.api \in PSAPIs /\ call.encoded = "")) =>
        /\ "open" \in hist.failed => (ret.err = shell.err /\ ret.err # Nil /\ ret.code = 1)
        /\ "execute" \in hist.failed => (ret.err # Nil /\ ret.code = 1)
        /\ ~cmd.isNil => ret.err = cmd.err
        /\ ret.err = Nil => (hist.failed \cap {"open", "execute"} = {} /\ ~cmd.isNil)

C8_Witness ==
    /\ Returned
    /\ hist.failed = {"execute", "shellClose"}
    /\ ret.err # Nil
    /\ ret.code = 1

\* C9: CreateShell returns either a Shell bound to this Client and carrying the
\* parsed shell ID, with a nil error, or no Shell and a non-nil error: an error of
\* Post or of the parser never comes with a Shell.
C9_CreateShellAllOrNothing ==
    shell.called =>
        /\ \/ /\ ~shell.sh.isNil
              /\ shell.err = Nil
              /\ shell.sh.client = ctor.client
              /\ shell.sh.id = shell.parsedID
           \/ /\ shell.sh.isNil
              /\ shell.err # Nil
        /\ (shell.postErr # Nil \/ shell.parseErr # Nil) => shell.sh.isNil

C9_Witness ==
    /\ shell.called
    /\ shell.postErr = Nil
    /\ shell.parseErr # Nil
    /\ shell.sh.isNil
    /\ shell.err = shell.parseErr

\* The cancellation signal fired while the command had not reported Done.
CanceledBeforeDone == ctx.canceled /\ ~cmd.isNil /\ cmd.state # "Done" /\ pc # "returned"

\* C10: when the cancellation signal fires before the remote command reports Done,
\* RunWithContextWithInput still returns, with the failure sentinel as exit code
\* and a non-nil error.
C10_CancelStillReturns ==
    CanceledBeforeDone ~> (Returned /\ ret.code = FailureSentinel /\ ret.err # Nil)

(***************************************************************************)
(* Further claims on the transports (SpecPost, SpecNew).                   *)
(***************************************************************************)
MutualProfile == <<"http://schemas.dmtf.org/wbem/wsman/1/wsman/secprofile/https/mutual">>

\* The Client of this state with other credentials and nothing else changed.
WithCredentials(u, p) == [ctor.client EXCEPT !.username = u, !.password = p]

\* C11: the request ClientAuthRequest.Post builds carries no credential bytes: its
\* Authorization header is the fixed mutual-authentication profile name and the
\* whole request is the one built for a Client that differs only in username and
\* password; the request clientRequest.Post builds carries a basic-auth header made
\* of the username and the password, so that other credentials give another request.
C11_MutualTLSRequestHasNoCredentials ==
    (post.called /\ post.req.built) =>
        /\ ctor.client.http.type = "ClientAuthRequest" =>
              /\ post.req.Authorization = MutualProfile
              /\ \A u \in Usernames, p \in Passwords :
                    ClientAuthRequest_Post(WithCredentials(u, p), post.request, post.net).req = post.req
        /\ ctor.client.http.type = "clientRequest" =>
              /\ post.req.Authorization = <<"Basic", ctor.client.username, ctor.client.password>>
              /\ \A u \in Usernames, p \in Passwords :
                    (<<u, p>> # <<ctor.client.username, ctor.client.password>>)
                        => clientRequest_Post(WithCredentials(u, p), post.request, post.net).req # post.req

C11_Witness ==
    /\ post.called
    /\ post.req.built
    /\ ctor.client.http.type = "ClientAuthRequest"
    /\ ctor.client.username = "bob"
    /\ ctor.client.password = "hunter2"
    /\ post.req.Authorization = MutualProfile

C13_AtMostOneExchange ==
    post.called =>
        /\ post.exchanges <= 1
        /\ NewRequestErr(ctor.client.url) = Nil =>
              /\ post.exchanges = 1
              /\ post.req.built
              /\ post.req.method = "POST"
              /\ post.req.url = ctor.client.url
        /\ NewRequestErr(ctor.client.url) # Nil =>
              /\ post.exchanges = 0
              /\ post.str = <<>>
              /\ post.err # Nil
        /\ (NewRequestErr(ctor.client.url) = Nil /\ post.net.doErr # Nil) =>
              /\ post.exchanges = 1
              /\ post.str = <<>>
              /\ post.err # Nil
              /\ SubSeq(post.err, 2, Len(post.err)) = post.net.doErr

C13_Witness ==
    /\ post.called
    /\ ctor.client.http.type = "clientRequest"
    /\ ctor.client.url = GoodURL
    /\ post.net.doErr # Nil
    /\ post.exchanges = 1
    /\ post.str = <<>>
    /\ post.err # Nil

\* The dialer the caller supplied to the basic-auth strategy, "nil" when none.
SuppliedDial(params) ==
    IF params.TransportDecorator = "nil" THEN params.Dial
    ELSE Decorate(params.TransportDecorator).dial

BasicAuthConfigured == ctor.api # "none" /\ Strategy(ctor.params) = "clientRequest"

\* C16 as stated: clientRequest.Transport never inspects the endpoint's certificate,
\* key or CA bytes and so succeeds for every endpoint, installing the dialer the
\* caller supplied or else the default one.
C16_Original ==
    BasicAuthConfigured =>
        /\ ~ctor.client.isNil
        /\ ctor.err = Nil
        /\ ctor.client.http.transport.Dial =
              (IF SuppliedDial(ctor.params) # "nil" THEN SuppliedDial(ctor.params) ELSE "net.Dialer")

\* C16 as amended: clientRequest.Transport never inspects the endpoint's client
\* certificate or key, but it does load non-empty CA bytes: it fails exactly when
\* they hold no certificate, and otherwise succeeds, with the certificates found as
\* root pool, no client certificate, the dialer the caller supplied or else the
\* default one, and the proxy function supplied or else the environment's.
C16_BasicAuthTransport ==
    BasicAuthConfigured =>
        /\ NoClientReturned <=> MalformedPEM(endpoint.CACert, CertBlocks)
        /\ ~NoClientReturned =>
              /\ ~ctor.client.isNil
              /\ ctor.err = Nil
              /\ ctor.client.http.transport.set
              /\ ctor.client.http.transport.Dial =
                    (IF SuppliedDial(ctor.params) # "nil" THEN SuppliedDial(ctor.params) ELSE "net.Dialer")
              /\ ctor.client.http.transport.Proxy =
                    (IF ctor.params.TransportDecorator = "NewClientWithProxyFunc"
                     THEN "customProxy" ELSE "http.ProxyFromEnvironment")
              /\ ctor.client.http.transport.Certificates = <<>>
              /\ ctor.client.http.transport.RootCAs = Blocks(endpoint.CACert, CertBlocks)
        /\ \A ep \in Endpoints :
              (ep.CACert = endpoint.CACert /\ ep.url = endpoint.url) =>
                  LET other == NewClientWithParameters(ep, ctor.client.username,
                                                       ctor.client.password, ctor.params)
                  IN other.client = ctor.client /\ other.err = ctor.err

C16_Witness ==
    /\ BasicAuthConfigured
    /\ SuppliedDial(ctor.params) = "paramsDial"
    /\ endpoint.Cert = <<"junk">>
    /\ endpoint.Key = <<>>
    /\ endpoint.CACert = <<"junk", "CERT CA">>
    /\ ~ctor.client.isNil
    /\ ctor.client.http.transport.Dial = "paramsDial"
    /\ ctor.client.http.transport.RootCAs = <<"CERT CA">>

\* C19: in both transports every response Post obtained has its body closed exactly
\* once by the time Post returns, on every path: SOAP content type with the body
\* read, SOAP content type with a read error, another content type, a status other
\* than 200.
C19_BodyClosedExactlyOnce ==
    /\ GotResponse => post.closes = 1
    /\ (post.called /\ ~GotResponse) => post.closes = 0

(***************************************************************************)
(* Further claims on the Run* family (Spec, FairSpec).                     *)
(***************************************************************************)
NoPumpStarted ==
    /\ pump = [stdin |-> "notStarted", stdout |-> "notStarted", stderr |-> "notStarted"]
    /\ wg = 0

\* The errors ExecuteWithContext can return on this Client.
ExecuteErrors ==
    { ExecuteWithContext(ctor.client, net, parsed).err : net \in RunNetOutcomes, parsed \in CommandParses }
        \ {Nil}

\* C14: when opening the shell fails RunWithContextWithInput returns exit code 1
\* with the error CreateShell returned, and when executing the command fails it
\* returns exit code 1 with the error ExecuteWithContext returned; in both cases no
\* pump was started and there is no Command.  It returns exit code 0 with a nil
\* error only if the shell was opened and the command executed.
C14_EarlyFailureReturnsSentinel ==
    /\ "open" \in hist.failed =>
          /\ Returned
          /\ ret.returned
          /\ ret.code = 1
          /\ shell.err # Nil
          /\ ret.err = shell.err
          /\ ~ShellOpened
          /\ cmd.isNil
          /\ NoPumpStarted
    /\ "execute" \in hist.failed =>
          /\ pc \in {"deferredClose", "returned"}
          /\ ret.code = 1
          /\ ret.err \in ExecuteErrors
          /\ cmd.isNil
          /\ NoPumpStarted
    /\ (Returned /\ ret.code = 0 /\ ret.err = Nil) =>
          /\ ShellOpened
          /\ ~cmd.isNil
          /\ hist.failed \cap {"open", "execute"} = {}

C14_Witness ==
    /\ Returned
    /\ ret.returned
    /\ hist.failed \cap {"open", "execute"} = {"execute"}
    /\ ShellOpened
    /\ ret.code = 1
    /\ ret.err \in ExecuteErrors
    /\ NoPumpStarted
    /\ ~ctx.canceled

AllPumpsDone ==
    /\ pump = [stdin |-> "done", stdout |-> "done", stderr |-> "done"]
    /\ wg = 0

\* The goroutine of RunWithContextWithInput is past the join of line 239.
PastJoin == ~cmd.isNil /\ pc \in {"cmdClose", "deferredClose", "returned"}

\* C15: RunWithContextWithInput returns only after all three pumps have finished:
\* once it is past the join, and so when it returns, every pump it started is done
\* and the counter of the wait group is zero; the counter is always the number of
\* pumps still running.
C15_ReturnsAfterPumpsFinished ==
    /\ PastJoin => AllPumpsDone
    /\ Returned => (AllPumpsDone \/ NoPumpStarted)
    /\ ~NoPumpStarted => wg = Cardinality({ p \in DOMAIN pump : pump[p] # "done" })

C15_Witness ==
    /\ Returned
    /\ ret.returned
    /\ AllPumpsDone
    /\ call.stdin = "eof"
    /\ io.stdinReads > 0
    /\ cmd.stdinClosed
    /\ io.out # <<>>
    /\ io.err # <<>>

\* C17: once the command was executed the teardown is ordered.  The command's Close
\* is issued exactly once, and only after the command's Wait has returned (the
\* receive loop has stopped) and the three pumps have joined; the shell's Close is
\* issued exactly once, and only after the command's Close; by the time the call
\* returns both have been issued.  The Command's stdin sink is closed only when a
\* non-nil stdin source was supplied, and only once the stdin pump has stopped copying.
C17_TeardownIsOrdered ==
    ~cmd.isNil =>
        /\ hist.cmdCloses = (IF pc \in {"deferredClose", "returned"} THEN 1 ELSE 0)
        /\ hist.shellCloses = (IF pc = "returned" THEN 1 ELSE 0)
        /\ hist.cmdCloses = 1 => (cmd.loop = "stopped" /\ AllPumpsDone)
        /\ hist.shellCloses = 1 => hist.cmdCloses = 1
        /\ cmd.stdinClosed => (call.stdin # "nil" /\ pump.stdin = "done")
        /\ pump.stdin \in {"copying", "closing"} => ~cmd.stdinClosed

C17_Witness ==
    /\ Returned
    /\ ~cmd.isNil
    /\ hist.cmdCloses = 1
    /\ hist.shellCloses = 1
    /\ call.stdin = "fails"
    /\ cmd.stdinClosed
    /\ "cmdClose" \in hist.failed
    /\ cmd.state = "Done"

\* The remote command has reported Done, or the cancellation signal has fired on a
\* call that executed its command.
DoneOrCanceled == ~cmd.isNil /\ (cmd.state = "Done" \/ ctx.canceled)

\* C18: RunWithContextWithInput eventually returns once the remote command has
\* reached Done or the cancellation signal has fired, whatever the caller's stdin
\* source does: a source whose read stays blocked does not keep the join of the
\* three pumps, and so the call, from completing.
C18_EventuallyReturns == DoneOrCanceled ~> Returned

====
